---- MODULE Spec2Model ----
(***************************************************************************)
(* Model of hh_tools.flowdecomp: the Decomposer class that splits a sewer  *)
(* flow record into GWI, BWWF and WWF.                                     *)
(*                                                                         *)
(* Numbers are exact rationals <<n, d>> (d > 0, lowest terms); the float   *)
(* NaN that pandas uses for a missing sample is <<0, 0>> and the IEEE      *)
(* infinities are <<1, 0>> and <<-1, 0>>.  Timestamps are minutes since    *)
(* Monday 2020-07-27 00:00, so that Friday 2020-07-31 -> Saturday          *)
(* 2020-08-01 crosses both the weekday/weekend and the month boundary.     *)
(* An optional value (Python None) is a sequence of length 0 or 1.         *)
(***************************************************************************)
EXTENDS Integers, Sequences, FiniteSets, TLC

VARIABLES
    phase,      \* "new" (no Decomposer yet), "ready" (constructed), "done" (fit was called)
    self,       \* the Decomposer's attributes (set by __init__, read and written by fit)
    flow_df,    \* the flow table passed to fit
    rain_df,    \* the optional rainfall table passed to fit
    gwi_df,     \* the optional GWI table passed to fit
    out,        \* what fit did: the stages it ran, its locals, the DecompResult or the error
    uh_args,    \* the arguments of the last _rtk_uh call (<<>> before the first)
    uh,         \* the ordinates returned by the last _rtk_uh call
    resample_args,  \* the table and interval of the last _resample call (<<>> before the first)
    resampled,      \* the series returned by the last _resample call, or its error
    calls,      \* the fit calls made on the Decomposer so far: their tables and results
    model_args, \* the arguments of the last _model_wwf call (<<>> before the first)
    modeled     \* the array returned by the last _model_wwf call, or its error

vars == <<phase, self, flow_df, rain_df, gwi_df, out, uh_args, uh, resample_args, resampled, calls, model_args, modeled>>

-----------------------------------------------------------------------------
(* Bounds of the model *)

\* most rows a flow, rainfall or GWI table holds
MaxRows == 3

-----------------------------------------------------------------------------
(* Exact arithmetic standing for the floats *)

None == <<>>
Some(x) == <<x>>

NaN == <<0, 0>>
PosInf == <<1, 0>>
NegInf == <<-1, 0>>
IsNaN(x) == x = NaN
IsFinite(x) == x[2] # 0

Abs(n) == IF n < 0 THEN -n ELSE n
Sign(n) == IF n < 0 THEN -1 ELSE IF n > 0 THEN 1 ELSE 0

RECURSIVE GCD(_, _)
GCD(a, b) == IF b = 0 THEN a ELSE GCD(b, a % b)

\* n/d in lowest terms, d # 0
Rat(n, d) ==
    LET g == GCD(Abs(n), Abs(d))
        s == IF d < 0 THEN -1 ELSE 1
    IN  <<(s * n) \div g, (s * d) \div g>>

Num(n) == <<n, 1>>

RNeg(a) == <<-a[1], a[2]>>

RAdd(a, b) ==
    IF IsNaN(a) \/ IsNaN(b) THEN NaN
    ELSE IF IsFinite(a) /\ IsFinite(b)
         THEN LET g == GCD(a[2], b[2])
              IN  Rat(a[1] * (b[2] \div g) + b[1] * (a[2] \div g), (a[2] \div g) * b[2])
    ELSE IF IsFinite(a) THEN b
    ELSE IF IsFinite(b) \/ a = b THEN a
    ELSE NaN

RSub(a, b) == RAdd(a, RNeg(b))

RMul(a, b) ==
    IF IsNaN(a) \/ IsNaN(b) THEN NaN
    ELSE IF IsFinite(a) /\ IsFinite(b)
         THEN LET g == GCD(Abs(a[1]), b[2])
                  h == GCD(Abs(b[1]), a[2])
              IN  <<(a[1] \div g) * (b[1] \div h), (a[2] \div h) * (b[2] \div g)>>
    ELSE <<Sign(a[1]) * Sign(b[1]), 0>>

\* IEEE division as numpy does it: x/0 is an infinity, 0/0 is NaN, no error
RDiv(a, b) ==
    IF IsNaN(a) \/ IsNaN(b) THEN NaN
    ELSE IF IsFinite(a) /\ IsFinite(b)
         THEN IF b[1] = 0 THEN <<Sign(a[1]), 0>>
              ELSE RMul(a, <<Sign(b[1]) * b[2], Abs(b[1])>>)
    ELSE IF IsFinite(b) THEN <<Sign(a[1]) * (IF b[1] < 0 THEN -1 ELSE 1), 0>>
    ELSE IF IsFinite(a) THEN Num(0)
    ELSE NaN

\* IEEE comparisons: every comparison with NaN is false
RLe(a, b) ==
    /\ ~IsNaN(a)
    /\ ~IsNaN(b)
    /\ IF IsFinite(a) /\ IsFinite(b) THEN a[1] * b[2] <= b[1] * a[2]
       ELSE a = NegInf \/ b = PosInf

RLt(a, b) == RLe(a, b) /\ a # b
REq(a, b) == ~IsNaN(a) /\ ~IsNaN(b) /\ a = b

\* floor of a finite rational
Floor(a) == IF a[1] >= 0 THEN a[1] \div a[2] ELSE -((-a[1] + a[2] - 1) \div a[2])

\* Python 3 round(): to the nearest integer, a tie to the even one
Round(a) ==
    LET f == Floor(a)
        twice == RSub(RMul(Num(2), a), Num(2 * f))     \* 2 * (a - f), in [0, 2)
    IN  IF RLt(twice, Num(1)) THEN f
        ELSE IF RLt(Num(1), twice) THEN f + 1
        ELSE IF f % 2 = 0 THEN f ELSE f + 1

Range(s) == {s[i] : i \in DOMAIN s}

\* pandas' sum of a sequence of values: missing values are skipped (skipna)
RECURSIVE SumSkipNa(_)
SumSkipNa(s) ==
    IF s = <<>> THEN Num(0)
    ELSE IF IsNaN(Head(s)) THEN SumSkipNa(Tail(s))
    ELSE RAdd(Head(s), SumSkipNa(Tail(s)))

\* numpy's sum: a NaN propagates
RECURSIVE SumSeq(_)
SumSeq(s) == IF s = <<>> THEN Num(0) ELSE RAdd(Head(s), SumSeq(Tail(s)))

CountValid(s) == Cardinality({i \in DOMAIN s : ~IsNaN(s[i])})

\* pandas' mean: of the values that are not missing; NaN when there is none
MeanSkipNa(s) ==
    IF CountValid(s) = 0 THEN NaN ELSE RDiv(SumSkipNa(s), Num(CountValid(s)))

\* the values of s at the positions in the set P, in order
RECURSIVE PickFrom(_, _, _)
PickFrom(s, P, i) ==
    IF i > Len(s) THEN <<>>
    ELSE (IF i \in P THEN <<s[i]>> ELSE <<>>) \o PickFrom(s, P, i + 1)

Pick(s, P) == PickFrom(s, P, 1)

\* the sequence s with every element evaluated: a tuple
Tup(s) == s \o <<>>

SetMin(S) == CHOOSE x \in S : \A y \in S : x <= y
SetMax(S) == CHOOSE x \in S : \A y \in S : x >= y

-----------------------------------------------------------------------------
(* Calendar of a timestamp (minutes since Monday 2020-07-27 00:00) *)

MinutesPerHour == 60
HoursPerDay == 24
DaysPerWeek == 7
MinutesPerDay == MinutesPerHour * HoursPerDay

\* DatetimeIndex.hour
HourOf(t) == (t \div MinutesPerHour) % HoursPerDay
\* DatetimeIndex.weekday: Monday is 0
WeekdayOf(t) == (t \div MinutesPerDay) % DaysPerWeek
\* DatetimeIndex.month, for the days 2020-07-27 .. 2020-08-31
MonthOf(t) == IF t \div MinutesPerDay < 5 THEN 7 ELSE 8

-----------------------------------------------------------------------------
(* Tables and series *)

\* A table (DataFrame with a timestamp and a value column) is
\*   [aware |-> whether its timestamps carry a timezone (UTC), rows |-> [timestamp -> value]]
\* and a series (pd.Series on a DatetimeIndex) is
\*   [tz |-> "naive" or a timezone name, idx |-> its timestamps in order, v |-> its values]
Table(aware, rows) == [aware |-> aware, rows |-> rows]
Series(tz, idx, v) == [tz |-> tz, idx |-> idx, v |-> v]
Ok(x) == [ok |-> TRUE, val |-> x, error |-> ""]
Raise(e) == [ok |-> FALSE, val |-> <<>>, error |-> e]

\* position of the last value that is not missing before i (0 if none)
PrevValid(v, i) ==
    LET S == {j \in 1..(i - 1) : ~IsNaN(v[j])} IN IF S = {} THEN 0 ELSE SetMax(S)
\* position of the first value that is not missing after i (0 if none)
NextValid(v, i) ==
    LET S == {j \in (i + 1)..Len(v) : ~IsNaN(v[j])} IN IF S = {} THEN 0 ELSE SetMin(S)

\* the point at position i on the line through (p, v[p]) and (q, v[q])
Lerp(v, p, q, i) ==
    RAdd(v[p], RMul(RSub(v[q], v[p]), Rat(i - p, q - p)))

\* Series.interpolate(limit=limit): linear, forward only.  A missing value is filled
\* when a valid one precedes it by at most `limit` positions: on the line to the
\* next valid value, or with the last valid value when none follows.
InterpolateFwd(v, limit) ==
    Tup([i \in DOMAIN v |->
        LET p == PrevValid(v, i)
            q == NextValid(v, i)
        IN  IF ~IsNaN(v[i]) THEN v[i]
            ELSE IF p = 0 \/ i - p > limit THEN NaN
            ELSE IF q = 0 THEN v[p]
            ELSE Lerp(v, p, q, i)])

\* Series.interpolate(limit_direction="both"): linear between valid values, the
\* nearest valid value before the first and after the last; nothing to fill from
\* when no value is valid.
InterpolateBoth(v) ==
    Tup([i \in DOMAIN v |->
        LET p == PrevValid(v, i)
            q == NextValid(v, i)
        IN  IF ~IsNaN(v[i]) THEN v[i]
            ELSE IF p = 0 /\ q = 0 THEN NaN
            ELSE IF p = 0 THEN v[q]
            ELSE IF q = 0 THEN v[p]
            ELSE Lerp(v, p, q, i)])

\* the number of gap samples interpolate(limit=...) fills, flowdecomp.py line 95
InterpolateLimit == 2

\* a grid that is hourly whatever the interval
Asfreq_Hourly(df, interval) ==
    IF DOMAIN df.rows = {} THEN Ok(Series(IF df.aware THEN "UTC" ELSE "naive", <<>>, <<>>))
    ELSE LET t0 == SetMin(DOMAIN df.rows)
             t1 == SetMax(DOMAIN df.rows)
             n == (t1 - t0) \div MinutesPerHour + 1
             idx == Tup([k \in 1..n |-> t0 + (k - 1) * MinutesPerHour])
         IN  Ok(Series(IF df.aware THEN "UTC" ELSE "naive", idx,
                       Tup([k \in 1..n |-> IF idx[k] \in DOMAIN df.rows
                                       THEN df.rows[idx[k]] ELSE NaN])))

\* set_index("timestamp")[col].sort_index().asfreq(interval): the grid from the first
\* to the last timestamp at the interval; a grid point without a row is missing, a
\* row off the grid is dropped.  asfreq of an empty datetime index is the empty index
\* with the frequency set (pandas' _asfreq_compat), so an empty table gives an empty
\* series.
Asfreq(df, interval) ==
    IF DOMAIN df.rows = {} THEN Ok(Series(IF df.aware THEN "UTC" ELSE "naive", <<>>, <<>>))
    ELSE LET t0 == SetMin(DOMAIN df.rows)
             t1 == SetMax(DOMAIN df.rows)
             n == (t1 - t0) \div interval + 1
             idx == Tup([k \in 1..n |-> t0 + (k - 1) * interval])
         IN  Ok(Series(IF df.aware THEN "UTC" ELSE "naive", idx,
                       Tup([k \in 1..n |-> IF idx[k] \in DOMAIN df.rows
                                       THEN df.rows[idx[k]] ELSE NaN])))

\* Decomposer._resample
Resample(df, interval) ==
    LET a == Asfreq(df, interval)
    IN  IF ~a.ok THEN a
        ELSE Ok(Series(a.val.tz, a.val.idx, InterpolateFwd(a.val.v, InterpolateLimit)))

\* Series.tz_localize(tz): only a naive index can be localized
TzLocalize(s, tz) ==
    IF s.tz # "naive" THEN Raise("TypeError") ELSE Ok(Series(tz, s.idx, s.v))

\* position of label t in the index of s (0 if absent)
PosOf(s, t) ==
    LET P == {k \in DOMAIN s.idx : s.idx[k] = t} IN IF P = {} THEN 0 ELSE SetMin(P)

\* Series.reindex(index, fill_value=fill): the value s holds under the same label,
\* fill where s has no such label.  A naive label never equals a timezone-aware one.
Reindex(s, tz, idx, fill) ==
    Series(tz, idx,
           Tup([k \in DOMAIN idx |->
               IF s.tz = tz /\ PosOf(s, idx[k]) # 0 THEN s.v[PosOf(s, idx[k])] ELSE fill]))


-----------------------------------------------------------------------------
(* Decomposer._calc_gwi *)

MonthsPerYear == 12

\* the multiplier of the month after
MonthlyAt_OffByOne(by_month, t) == by_month[(MonthOf(t) % MonthsPerYear) + 1]

\* the value a loop "for m in range(1, 13): x[index.month == m] = by_month[m - 1]"
\* leaves at timestamp t
MonthlyAt(by_month, t) == by_month[MonthOf(t)]

\* a test that sends every mode but avg_monthly down the timeseries branch
IsTimeseries_NotAvgMonthly(slf) == slf.gwi_mode # "avg_monthly"

\* line 101: the only test of the mode; every other value takes the else branch
IsTimeseries(slf) == slf.gwi_mode = "timeseries"

\* Returns the gwi values, and self.gwi_avg as the call leaves it.
CalcGwi(slf, tz, index, gwi_series) ==
    IF IsTimeseries(slf)
    THEN IF gwi_series = None
         THEN [ok |-> FALSE, error |-> "ValueError", val |-> <<>>, gwi_avg |-> slf.gwi_avg]
         ELSE LET gwi == InterpolateBoth(
                             Reindex(gwi_series[1], tz, index, NaN).v)
                  anyna == \E i \in DOMAIN gwi : IsNaN(gwi[i])
                  avg == IF slf.gwi_avg = None THEN Some(MeanSkipNa(gwi)) ELSE slf.gwi_avg
              IN  IF ~anyna
                  THEN [ok |-> TRUE, error |-> "", val |-> gwi, gwi_avg |-> slf.gwi_avg]
                  ELSE IF Len(slf.gwi_monthly) < MonthsPerYear
                  THEN [ok |-> FALSE, error |-> "IndexError", val |-> <<>>, gwi_avg |-> avg]
                  ELSE [ok |-> TRUE, error |-> "", gwi_avg |-> avg,
                        val |-> Tup([i \in DOMAIN gwi |->
                                    IF ~IsNaN(gwi[i]) THEN gwi[i]
                                    ELSE RMul(avg[1], MonthlyAt(slf.gwi_monthly, index[i]))])]
    ELSE IF slf.gwi_avg = None
    THEN [ok |-> FALSE, error |-> "ValueError", val |-> <<>>, gwi_avg |-> slf.gwi_avg]
    ELSE IF Len(slf.gwi_monthly) < MonthsPerYear
    THEN [ok |-> FALSE, error |-> "IndexError", val |-> <<>>, gwi_avg |-> slf.gwi_avg]
    ELSE [ok |-> TRUE, error |-> "", gwi_avg |-> slf.gwi_avg,
          val |-> Tup([i \in DOMAIN index |->
                      RMul(slf.gwi_avg[1], MonthlyAt(slf.gwi_monthly, index[i]))])]

-----------------------------------------------------------------------------
(* Decomposer._find_dry *)

\* dict.get(key, default)
Get(d, key, default) == IF key \in DOMAIN d THEN d[key] ELSE default

DefaultLookbackH == 48
DefaultRainThresh == Rat(2, 100)

\* int(x): towards zero
Trunc(a) == IF a[1] >= 0 THEN a[1] \div a[2] ELSE -((-a[1]) \div a[2])

\* the interval in hours: self.interval / pd.Timedelta("1H")
IntervalH(slf) == Rat(slf.interval, MinutesPerHour)

\* a window rounded to the nearest sample count instead
Lookback_Rounded(slf) ==
    Round(RDiv(Get(slf.dry_criteria, "lookback_h", Num(DefaultLookbackH)), IntervalH(slf)))

\* line 126: int(lookback_h / interval_h)
Lookback(slf) ==
    Trunc(RDiv(Get(slf.dry_criteria, "lookback_h", Num(DefaultLookbackH)), IntervalH(slf)))

Thresh(slf) == Get(slf.dry_criteria, "rain_thresh", DefaultRainThresh)

FillNa(v, x) == Tup([i \in DOMAIN v |-> IF IsNaN(v[i]) THEN x ELSE v[i]])

\* Series.rolling(w, min_periods=1).sum(): at i, the sum of the last w values up to
\* and including i, of as many as there are when fewer than w
RollingSum(v, w) ==
    Tup([i \in DOMAIN v |-> SumSeq(SubSeq(v, IF i - w + 1 < 1 THEN 1 ELSE i - w + 1, i))])

\* rain is None or Some(series); index and tz are those of the flow series.
\* rolling() refuses min_periods=1 with a window below 1.
FindDry(slf, rain, tz, index) ==
    IF rain = None THEN Ok(Tup([i \in DOMAIN index |-> TRUE]))
    ELSE IF Lookback(slf) < 1 THEN Raise("ValueError")
    ELSE LET accum == RollingSum(FillNa(rain[1].v, Num(0)), Lookback(slf))
             dry == Series(rain[1].tz, rain[1].idx,
                           Tup([i \in DOMAIN accum |-> RLe(accum[i], Thresh(slf))]))
         IN  Ok(Reindex(dry, tz, index, FALSE).v)

-----------------------------------------------------------------------------
(* Decomposer._calc_bwwf *)

\* df["weekday"] < 5
FirstWeekendDay == 5
IsWeekday(t) == WeekdayOf(t) < FirstWeekendDay

InClass(label, t) == IF label = "weekday" THEN IsWeekday(t) ELSE ~IsWeekday(t)

\* A 24-hour pattern is the sequence of its values, hour 0 first: pattern.iloc[h]
AtHour(pattern, h) == pattern[h + 1]

ZeroPattern == Tup([k \in 1..HoursPerDay |-> Num(0)])

\* (flow - gwi).where(dry_mask)
Sanitary(flow, gwi, dry) ==
    Tup([i \in DOMAIN flow |-> IF dry[i] THEN RSub(flow[i], gwi[i]) ELSE NaN])

\* the rows of sub = df[mask & dry_mask] for a class
SubRows(label, index, dry) == {i \in DOMAIN index : InClass(label, index[i]) /\ dry[i]}

\* sub.groupby("hour")["sanitary"].mean().reindex(range(24), fill_value=0): an hour
\* with no row in sub is 0; an hour whose rows are all missing keeps its NaN mean
Hourly(label, index, sanitary, dry) ==
    Tup([k \in 1..HoursPerDay |->
        LET rows == {i \in SubRows(label, index, dry) : HourOf(index[i]) = k - 1}
        IN  IF rows = {} THEN Num(0) ELSE MeanSkipNa(Pick(sanitary, rows))])

\* sub["sanitary"].mean()
DailyAvg(label, index, sanitary, dry) ==
    MeanSkipNa(Pick(sanitary, SubRows(label, index, dry)))

\* norm * daily_avg * 24 with norm = hourly / hourly.sum(), lines 148-149
ScalePattern(hourly, total, daily_avg) ==
    Tup([k \in 1..HoursPerDay |->
        RMul(RMul(RDiv(hourly[k], total), daily_avg), Num(HoursPerDay))])

\* lines 147-153 for one class, from its hourly means, their sum and its daily
\* average.  With a positive daily average and hourly means that sum to 0, norm is
\* a numpy array, pattern is one too, and pattern.values on line 153 raises
\* AttributeError.
PatternFrom(hourly, total, daily_avg) ==
    IF IsFinite(daily_avg) /\ RLt(Num(0), daily_avg)
    THEN IF total # Num(0)
         THEN [ok |-> TRUE, error |-> "", val |-> ScalePattern(hourly, total, daily_avg),
               daily_avg |-> daily_avg]
         ELSE [ok |-> FALSE, error |-> "AttributeError", val |-> <<>>,
               daily_avg |-> daily_avg]
    ELSE [ok |-> TRUE, error |-> "", val |-> ZeroPattern,
          daily_avg |-> IF IsFinite(daily_avg) THEN daily_avg ELSE Num(0)]

HourlyPattern(hourly, daily_avg) == PatternFrom(hourly, SumSkipNa(hourly), daily_avg)

\* The pattern of one class and its daily_avg parameter, lines 144-154
ClassPattern(label, index, sanitary, dry) ==
    HourlyPattern(Hourly(label, index, sanitary, dry), DailyAvg(label, index, sanitary, dry))

\* Series.ffill() then .bfill()
FFill(v) == Tup([i \in DOMAIN v |->
                IF ~IsNaN(v[i]) \/ PrevValid(v, i) = 0 THEN v[i] ELSE v[PrevValid(v, i)]])
BFill(v) == Tup([i \in DOMAIN v |->
                IF ~IsNaN(v[i]) \/ NextValid(v, i) = 0 THEN v[i] ELSE v[NextValid(v, i)]])

\* bwwf[sub_idx] = pattern.iloc[hour_idx].values for both classes, lines 155-157
AssignPattern(index, weekday, weekend) ==
    Tup([i \in DOMAIN index |->
        AtHour(IF IsWeekday(index[i]) THEN weekday ELSE weekend, HourOf(index[i]))])

\* What the loop of lines 143-157 and line 158 make of the two classes' patterns;
\* `raised` is the class whose pattern raised ("" if none: the loop handles weekday
\* first, so an error there leaves weekend unhandled).
BothClasses(index, wd, we) ==
    IF ~wd.ok \/ ~we.ok
    THEN [ok |-> FALSE, error |-> "AttributeError",
          raised |-> IF ~wd.ok THEN "weekday" ELSE "weekend",
          bwwf |-> <<>>, patterns |-> <<>>, daily_avg |-> <<>>]
    ELSE [ok |-> TRUE, error |-> "", raised |-> "",
          bwwf |-> BFill(FFill(AssignPattern(index, wd.val, we.val))),
          patterns |-> [weekday |-> wd.val, weekend |-> we.val],
          daily_avg |-> [weekday |-> wd.daily_avg, weekend |-> we.daily_avg]]

\* Returns bwwf, the two patterns and the two daily averages of the parameter record
CalcBwwf(index, flow, gwi, dry) ==
    BothClasses(index,
                ClassPattern("weekday", index, Sanitary(flow, gwi, dry), dry),
                ClassPattern("weekend", index, Sanitary(flow, gwi, dry), dry))

-----------------------------------------------------------------------------
(* Decomposer._rtk_uh and Decomposer._model_wwf *)

Max(a, b) == IF a >= b THEN a ELSE b
RMax(a, b) == IF RLe(b, a) THEN a ELSE b

\* the ordinate uh[i] before normalisation, i counted from 0
UhOrdinate(i, tp, K) ==
    IF i <= tp THEN Rat(i, tp)
    ELSE RMax(RSub(Num(1), RDiv(Num(i - tp), RMul(K, Num(tp)))), Num(0))

\* T and interval_h in hours; returns the ordinates as a sequence (uh[0] first)
RtkUh(R, T, K, interval_h) ==
    LET tp == Max(Round(RDiv(T, interval_h)), 1)
        L == Round(RMul(RAdd(Num(1), K), Num(tp)))
        raw == Tup([k \in 1..L |-> UhOrdinate(k - 1, tp, K)])
        total == SumSeq(raw)
    IN  Tup([k \in 1..L |-> RMul(R, RDiv(raw[k], total))])

\* a product without the lag: rain[t] * uh[0]
ConvolveAt_NoLag(rain, h, t) == RMul(rain[t], h[1])

\* np.convolve(rain, uh)[:len(rain)] at position t (from 1)
ConvolveAt(rain, h, t) ==
    SumSeq(Tup([j \in 1..(IF t < Len(h) THEN t ELSE Len(h)) |-> RMul(rain[t - j + 1], h[j])]))

\* params is a sequence of triplets [R, T, K]
RECURSIVE ModelWwf(_, _, _)
ModelWwf(rain, params, interval_h) ==
    IF params = <<>> THEN Tup([t \in DOMAIN rain |-> Num(0)])
    ELSE LET h == RtkUh(params[1].R, params[1].T, params[1].K, interval_h)
             rest == ModelWwf(rain, Tail(params), interval_h)
         IN  Tup([t \in DOMAIN rain |-> RAdd(ConvolveAt(rain, h, t), rest[t])])

\* np.convolve rejects an empty array: _model_wwf raises ValueError for an empty
\* rainfall series as soon as there is a triplet to convolve it with, line 181
ModelWwfRaises(rain, params) == rain = <<>> /\ params # <<>>

\* 1 - sum((obs - model)^2) / sum((obs - mean(obs))^2), lines 227-228
Nse(obs, model) ==
    LET mean == RDiv(SumSeq(obs), Num(Len(obs)))
        sq(x) == RMul(x, x)
        ss_res == SumSeq(Tup([t \in DOMAIN obs |-> sq(RSub(obs[t], model[t]))]))
        ss_tot == SumSeq(Tup([t \in DOMAIN obs |-> sq(RSub(obs[t], mean))]))
    IN  RSub(Num(1), RDiv(ss_res, ss_tot))

-----------------------------------------------------------------------------
(* Decomposer.fit *)

\* a clip that floors nothing
ClipLower0_Unclipped(v) == v

\* a clip that caps at 0 instead of flooring
ClipLower0_Upper(v) == Tup([i \in DOMAIN v |-> IF RLt(Num(0), v[i]) THEN Num(0) ELSE v[i]])

\* Series.clip(lower=0): a missing value stays missing
ClipLower0(v) == Tup([i \in DOMAIN v |-> IF RLt(v[i], Num(0)) THEN Num(0) ELSE v[i]])

\* a residual that leaves the sanitary flow in
Residual_KeepBwwf(flow, gwi, bwwf) == Tup([i \in DOMAIN flow |-> RSub(flow[i], gwi[i])])

\* flow - gwi - bwwf, line 201
Residual(flow, gwi, bwwf) == Tup([i \in DOMAIN flow |-> RSub(RSub(flow[i], gwi[i]), bwwf[i])])

\* lines 201-203
CalcWwf(slf, flow, gwi, bwwf) ==
    IF slf.clip_negative THEN ClipLower0(Residual(flow, gwi, bwwf))
    ELSE Residual(flow, gwi, bwwf)

\* an RTK fit that runs whenever rainfall is supplied
RtkRuns_AnyN(slf, rdf) == rdf # None

\* an RTK fit that runs without looking for the rainfall
RtkRuns_NoRainCheck(slf, rdf) == slf.rtk_components # 0

\* line 210: whether the RTK fit runs
RtkRuns(slf, rdf) == rdf # None /\ slf.rtk_components # 0

NoOut ==
    [status |-> "none", error |-> "", raised |-> "", stages |-> <<>>, index |-> <<>>,
     tz |-> "", flow |-> <<>>, rain |-> None, gwi |-> <<>>, dry_mask |-> <<>>,
     bwwf |-> <<>>, residual |-> <<>>, wwf |-> <<>>, timeseries |-> <<>>,
     parameters |-> <<>>, gwi_avg |-> None]

\* fit is modelled stage by stage: each stage takes the record `o` of what the call
\* has done so far (the stages entered, fit's locals) and the outcome of the call it
\* follows, and either ends the call with that call's error or goes on.
Enter(o, stage) == [o EXCEPT !.stages = @ \o <<stage>>]
Failed(o, e) == [o EXCEPT !.status = "error", !.error = e]

\* an outcome localized / reindexed when it is not an error
LocalizeOk(r, tz) == IF r.ok THEN TzLocalize(r.val, tz) ELSE r
ReindexOk(r, tz, idx, fill) == IF r.ok THEN Ok(Some(Reindex(r.val, tz, idx, fill))) ELSE r

\* lines 230-233, and lines 222-229 when the RTK fit ran
FitResult(slf, x, o, b1, rtk, wwf) ==
    [o EXCEPT
        !.status = "ok",
        !.wwf = wwf,
        !.timeseries =
            [timestamp |-> o.index, flow |-> o.flow, gwi |-> o.gwi, bwwf |-> o.bwwf,
             wwf |-> wwf,
             rainfall |-> IF o.rain = None THEN None ELSE Some(o.rain[1].v)],
        !.parameters =
            [gwi_mode |-> slf.gwi_mode, gwi_avg |-> o.gwi_avg,
             gwi_monthly |-> slf.gwi_monthly,
             daily_avg |-> b1.daily_avg, hourly |-> b1.patterns,
             rtk_triplets |-> IF rtk THEN Some(x) ELSE None,
             fit_metrics |-> IF rtk THEN Some(Nse(o.residual, wwf)) ELSE None]]

\* lines 210-229: the model replaces the residual when the RTK fit runs
\* (line 212 reads rain.values, line 219 is the first evaluation of the objective)
FitRtk(slf, rdf, x, o, b1) ==
    IF ~RtkRuns(slf, rdf) THEN FitResult(slf, x, Enter(o, "result"), b1, FALSE, o.residual)
    ELSE IF o.rain = None THEN Failed(Enter(o, "rtk"), "AttributeError")
    ELSE IF ModelWwfRaises(o.rain[1].v, x) THEN Failed(Enter(o, "rtk"), "ValueError")
    ELSE FitResult(slf, x, Enter(Enter(o, "rtk"), "result"), b1, TRUE,
                   ModelWwf(o.rain[1].v, x, IntervalH(slf)))

\* lines 201-203
FitWwf(slf, rdf, x, o, b1) ==
    IF ~b1.ok THEN [Failed(o, b1.error) EXCEPT !.raised = b1.raised]
    ELSE FitRtk(slf, rdf, x,
                [Enter(o, "wwf") EXCEPT !.bwwf = b1.bwwf,
                                        !.residual = CalcWwf(slf, o.flow, o.gwi, b1.bwwf)],
                b1)

\* line 200
FitCalcBwwf(slf, rdf, x, o, d1) ==
    IF ~d1.ok THEN Failed(o, d1.error)
    ELSE FitWwf(slf, rdf, x, [Enter(o, "calc_bwwf") EXCEPT !.dry_mask = d1.val],
                CalcBwwf(o.index, o.flow, o.gwi, d1.val))

\* line 199
FitFindDry(slf, rdf, x, o, g1) ==
    IF ~g1.ok THEN [Failed(o, g1.error) EXCEPT !.gwi_avg = g1.gwi_avg]
    ELSE FitCalcBwwf(slf, rdf, x,
                     [Enter(o, "find_dry") EXCEPT !.gwi = g1.val, !.gwi_avg = g1.gwi_avg],
                     FindDry(slf, o.rain, o.tz, o.index))

\* line 198
FitCalcGwi(slf, rdf, x, o, g) ==
    IF ~g.ok THEN Failed(o, g.error)
    ELSE FitFindDry(slf, rdf, x, Enter(o, "calc_gwi"), CalcGwi(slf, o.tz, o.index, g.val))

\* lines 195-197
FitGwiSeries(slf, rdf, gdf, x, o, r) ==
    IF ~r.ok THEN Failed(o, r.error)
    ELSE FitCalcGwi(slf, rdf, x,
                    [(IF gdf = None THEN o ELSE Enter(o, "resample_gwi")) EXCEPT
                        !.rain = r.val],
                    IF gdf = None THEN Ok(None)
                    ELSE ReindexOk(Resample(gdf[1], slf.interval), o.tz, o.index, NaN))

\* lines 192-194
FitRain(slf, rdf, gdf, x, o, f1) ==
    IF ~f1.ok THEN Failed(o, f1.error)
    ELSE FitGwiSeries(slf, rdf, gdf, x,
                      [(IF rdf = None THEN o ELSE Enter(o, "resample_rain")) EXCEPT
                          !.index = f1.val.idx, !.tz = f1.val.tz, !.flow = f1.val.v],
                      IF rdf = None THEN Ok(None)
                      ELSE ReindexOk(Resample(rdf[1], slf.interval),
                                     f1.val.tz, f1.val.idx, Num(0)))

\* What one call fit(fdf, rdf, gdf) does on a Decomposer with attributes slf; x is
\* the point the optimizer returns when the RTK fit runs.  The result records the
\* stages entered (the last one raised when status is "error"), fit's locals, the
\* table and the parameter record returned, and self.gwi_avg as the call leaves it.
FitRun(slf, fdf, rdf, gdf, x) ==
    FitRain(slf, rdf, gdf, x,
            [Enter(NoOut, "resample_flow") EXCEPT !.gwi_avg = slf.gwi_avg],
            LocalizeOk(Resample(fdf, slf.interval), slf.tz))

-----------------------------------------------------------------------------
(* The inputs the model draws from *)

\* Friday 2020-07-31 22:30 and the three half hours after it, the last one
\* Saturday 2020-08-01 00:00
FirstTick == 4 * MinutesPerDay + 22 * MinutesPerHour + 30
Ticks == {FirstTick + 30 * k : k \in 0..3}

\* every table with at most MaxRows rows at the ticks, with values in vals
Tables(aware, vals) ==
    {Table(aware, rows) :
        rows \in UNION {[T -> vals] : T \in {S \in SUBSET Ticks : Cardinality(S) <= MaxRows}}}

FlowVals == {Num(1), Num(7), Num(10), NaN}
RainVals == {Num(0), Num(1), NaN}

\* read_csv gives naive timestamps; tz_localize accepts no others
FlowTables == Tables(FALSE, FlowVals)
RainTables == {None} \cup {Some(t) : t \in Tables(TRUE, RainVals) \cup Tables(FALSE, RainVals)}

\* a few tables, for the calls that vary something else
FlowFew ==
    {Table(FALSE, [t \in Ticks |-> Num(7)]),
     Table(FALSE, [t \in Ticks |-> IF t = FirstTick THEN Num(1) ELSE Num(7)]),
     Table(FALSE, [t \in Ticks \ {FirstTick} |-> IF t = FirstTick + 30 THEN NaN ELSE Num(7)]),
     Table(TRUE, [t \in {FirstTick} |-> Num(7)])}
RainFew ==
    {None} \cup {Some(Table(TRUE, [t \in {u} |-> Num(1)])) : u \in Ticks}
GwiTables ==
    {None} \cup
    {Some(Table(aware, [t \in {FirstTick, FirstTick + 60} |->
                           IF t = FirstTick THEN Num(4) ELSE Num(10)])) :
        aware \in BOOLEAN}

Intervals == {30, 60}
\* the two documented modes and a string that is neither
KnownGwiModes == {"timeseries", "avg_monthly"}
GwiModes == KnownGwiModes \cup {"monthly_avg"}
GwiAvgs == {None, Some(Num(4))}
DryCriteria ==
    {None} \cup
    {Some([k \in {"lookback_h", "rain_thresh"} |-> IF k = "lookback_h" THEN lb ELSE th]) :
        lb \in {Rat(1, 2), Rat(7, 4)}, th \in {Num(0), Num(1)}}
RtkComponents == {0, 1, 2}
\* the default multipliers, or 2 for July, 3 for August and 1 for the other months,
\* or a list of two multipliers only
GwiMonthlies ==
    {None,
     Some(Tup([m \in 1..MonthsPerYear |->
                 IF m = 7 THEN Num(2) ELSE IF m = 8 THEN Num(3) ELSE Num(1)])),
     Some(<<Num(2), Num(2)>>)}
OptimizeMethods == {"de_then_lbfgsb", "nelder_mead"}

\* points of the optimizer's search space (R, T in hours, K), line 216
RtkPoints == {[R |-> Rat(1, 10), T |-> Num(2), K |-> Rat(1, 2)],
              [R |-> Rat(3, 10), T |-> Num(1), K |-> Rat(1, 5)]}

RECURSIVE SeqsOfLen(_, _)
SeqsOfLen(S, n) ==
    IF n = 0 THEN {<<>>} ELSE {<<x>> \o r : x \in S, r \in SeqsOfLen(S, n - 1)}

\* a flow table with the two columns and no row
EmptyTable == Table(FALSE, <<>>)

\* The calls of fit explored on a Decomposer: a few tables and the empty flow table
\* on every Decomposer, every
\* flow table and every rainfall table on those in avg_monthly mode without RTK fit.
FitInputs(slf) ==
    (FlowFew \X RainFew \X GwiTables)
    \cup ({EmptyTable} \X RainFew \X {None})
    \cup (IF /\ slf.gwi_mode = "avg_monthly" /\ slf.gwi_avg # None /\ slf.rtk_components = 0
              /\ slf.optimize_method = "de_then_lbfgsb"
              /\ \A m \in DOMAIN slf.gwi_monthly : slf.gwi_monthly[m] = Num(1)
          THEN (FlowTables \X RainFew \X {None})
               \cup (IF slf.clip_negative THEN FlowFew \X RainTables \X {None} ELSE {})
          ELSE {})

-----------------------------------------------------------------------------
(* The Decomposer *)

DefaultDryCriteria ==
    [k \in {"lookback_h", "rain_thresh"} |->
        IF k = "lookback_h" THEN Num(DefaultLookbackH) ELSE DefaultRainThresh]

NoSelf == <<>>

Init ==
    /\ phase = "new"
    /\ self = NoSelf
    /\ flow_df = None
    /\ rain_df = None
    /\ gwi_df = None
    /\ out = NoOut
    /\ uh_args = <<>>
    /\ uh = <<>>
    /\ resample_args = <<>>
    /\ resampled = <<>>
    /\ calls = <<>>
    /\ model_args = <<>>
    /\ modeled = <<>>

\* Decomposer.__init__
Construct(interval, gwi_mode, gwi_avg, gwi_monthly, dry_criteria, rtk_components, optimize_method, clip_negative) ==
    /\ phase = "new"
    /\ phase' = "ready"
    /\ self' = [interval |-> interval,
                tz |-> "UTC",
                gwi_mode |-> gwi_mode,
                gwi_avg |-> gwi_avg,
                gwi_monthly |-> IF gwi_monthly = None \/ gwi_monthly = Some(<<>>)
                                THEN Tup([m \in 1..MonthsPerYear |-> Num(1)])
                                ELSE gwi_monthly[1],
                dry_criteria |-> IF dry_criteria = None \/ dry_criteria = Some(<<>>)
                                 THEN DefaultDryCriteria
                                 ELSE dry_criteria[1],
                rtk_components |-> rtk_components,
                optimize_method |-> optimize_method,
                clip_negative |-> clip_negative]
    /\ UNCHANGED <<flow_df, rain_df, gwi_df, out, uh_args, uh, resample_args, resampled>>
    /\ UNCHANGED <<calls, model_args, modeled>>

\* Decomposer.fit(flow_df, rain_df, gwi_df): the whole call, the first on the
\* Decomposer or a later one
Fit(fdf, rdf, gdf, x) ==
    /\ phase \in {"ready", "done"}
    /\ phase' = "done"
    /\ flow_df' = Some(fdf)
    /\ rain_df' = rdf
    /\ gwi_df' = gdf
    /\ out' = FitRun(self, fdf, rdf, gdf, x)
    /\ self' = [self EXCEPT !.gwi_avg = out'.gwi_avg]
    /\ calls' = Append(calls, [flow_df |-> fdf, rain_df |-> rdf, gwi_df |-> gdf,
                                status |-> out'.status, gwi |-> out'.gwi,
                                parameters |-> out'.parameters])
    /\ UNCHANGED <<uh_args, uh, resample_args, resampled, model_args, modeled>>

\* the points the optimizer may return: any of the search space when the RTK fit runs
OptimizerPoints(slf, rdf) ==
    IF RtkRuns(slf, rdf) THEN SeqsOfLen(RtkPoints, slf.rtk_components) ELSE {<<>>}

\* a client constructs a Decomposer; the multipliers and the optimization method
\* vary on those with a documented GWI mode, the dry criteria on those with the
\* default multipliers and optimization method, and only with the default criteria
\* are two RTK components fitted
ConstructCall ==
    \E interval \in Intervals, gwi_mode \in GwiModes, gwi_avg \in GwiAvgs,
       clip_negative \in BOOLEAN :
       \E gwi_monthly \in (IF gwi_mode \in KnownGwiModes THEN GwiMonthlies ELSE {None}),
          optimize_method \in (IF gwi_mode \in KnownGwiModes THEN OptimizeMethods
                               ELSE {"de_then_lbfgsb"}) :
       \E dry_criteria \in (IF /\ gwi_monthly = None /\ optimize_method = "de_then_lbfgsb"
                                /\ gwi_mode \in KnownGwiModes
                             THEN DryCriteria ELSE {None}) :
       \E rtk_components \in (IF dry_criteria = None /\ gwi_monthly = None
                               THEN RtkComponents ELSE {0, 1}) :
          Construct(interval, gwi_mode, gwi_avg, gwi_monthly, dry_criteria, rtk_components,
                    optimize_method, clip_negative)

\* a client calls fit on it
FitCall ==
    /\ phase = "ready"
    /\ \E in \in FitInputs(self) : \E x \in OptimizerPoints(self, in[2]) :
          Fit(in[1], in[2], in[3], x)

Next == ConstructCall \/ FitCall

Spec == Init /\ [][Next]_vars

-----------------------------------------------------------------------------
(* Several fit calls on one Decomposer *)

MaxCalls == 3

\* the tables of the repeated calls: one flow record, and no GWI table, one that
\* covers the flow timestamps or one that has no value at any of them
RefitInputs == {Table(FALSE, [t \in Ticks |-> Num(7)])} \X {None} \X GwiTables

\* a client calls fit on a Decomposer without RTK components, for the first time or
\* again
RefitCall ==
    /\ phase \in {"ready", "done"}
    /\ Len(calls) < MaxCalls
    /\ self.rtk_components = 0
    /\ \E in \in RefitInputs : Fit(in[1], in[2], in[3], <<>>)

NextRefit == ConstructCall \/ RefitCall

SpecRefit == Init /\ [][NextRefit]_vars

-----------------------------------------------------------------------------
(* Direct calls of the static method Decomposer._rtk_uh *)

UhR == {Num(0), Rat(1, 10), Rat(3, 10)}
UhT == {Rat(1, 4), Rat(1, 2), Num(1), Rat(3, 2), Num(2)}
UhK == {Rat(1, 5), Rat(2, 5), Rat(1, 2), Rat(3, 4), Rat(99, 100)}
UhIntervalH == {Rat(1, 4), Rat(1, 2), Num(1)}

CallRtkUh(R, T, K, interval_h) ==
    /\ uh_args' = [R |-> R, T |-> T, K |-> K, interval_h |-> interval_h]
    /\ uh' = RtkUh(R, T, K, interval_h)
    /\ UNCHANGED <<phase, self, flow_df, rain_df, gwi_df, out, resample_args, resampled>>
    /\ UNCHANGED <<calls, model_args, modeled>>

NextRtkUh ==
    \E R \in UhR, T \in UhT, K \in UhK, interval_h \in UhIntervalH :
        CallRtkUh(R, T, K, interval_h)

SpecRtkUh == Init /\ [][NextRtkUh]_vars

-----------------------------------------------------------------------------
(* Direct calls of Decomposer._resample *)

MaxResampleTicks == 6

\* the half hours from Friday 2020-07-31 22:30 on
ResampleTicks == {FirstTick + 30 * k : k \in 0..(MaxResampleTicks - 1)}
ResampleVals == {Num(1), Num(7), NaN}

\* every table with rows at some of the ticks
ResampleTables ==
    {Table(FALSE, rows) : rows \in UNION {[T -> ResampleVals] : T \in SUBSET ResampleTicks}}

CallResample(df, interval) ==
    /\ resample_args' = [df |-> df, interval |-> interval]
    /\ resampled' = Resample(df, interval)
    /\ UNCHANGED <<phase, self, flow_df, rain_df, gwi_df, out, uh_args, uh>>
    /\ UNCHANGED <<calls, model_args, modeled>>

\* _resample reads nothing but its arguments and self.interval: one call is explored
\* per behaviour
NextResample ==
    /\ resample_args = <<>>
    /\ \E df \in ResampleTables, interval \in Intervals : CallResample(df, interval)

SpecResample == Init /\ [][NextResample]_vars

-----------------------------------------------------------------------------
(* Direct calls of the static method Decomposer._model_wwf *)

MaxRain == 3

\* every rainfall array of at most MaxRain samples
ModelRains == UNION {SeqsOfLen({Num(0), Num(1), NaN}, n) : n \in 0..MaxRain}
\* the parameter vectors of zero, one and two triplets
ModelParams == UNION {SeqsOfLen(RtkPoints, n) : n \in RtkComponents}
ModelIntervalH == {Rat(1, 2), Num(1)}

CallModelWwf(rain, params, interval_h) ==
    /\ model_args' = [rain |-> rain, params |-> params, interval_h |-> interval_h]
    /\ modeled' = IF ModelWwfRaises(rain, params) THEN Raise("ValueError")
                  ELSE Ok(ModelWwf(rain, params, interval_h))
    /\ UNCHANGED <<phase, self, flow_df, rain_df, gwi_df, out, uh_args, uh>>
    /\ UNCHANGED <<resample_args, resampled, calls>>

\* _model_wwf reads nothing but its arguments: one call is explored per behaviour
NextModelWwf ==
    /\ model_args = <<>>
    /\ \E rain \in ModelRains, params \in ModelParams, interval_h \in ModelIntervalH :
          CallModelWwf(rain, params, interval_h)

SpecModelWwf == Init /\ [][NextModelWwf]_vars

-----------------------------------------------------------------------------
(* Properties of fit's output *)

Returned == out.status = "ok"
RtkDisabled == ~RtkRuns(self, rain_df)
Rows == DOMAIN out.index
ResidualAt(i) ==
    RSub(RSub(out.timeseries.flow[i], out.timeseries.gwi[i]), out.timeseries.bwwf[i])
ComponentSumAt(i) ==
    RAdd(RAdd(out.timeseries.gwi[i], out.timeseries.bwwf[i]), out.timeseries.wwf[i])

\* C1, as stated: with the RTK fit disabled, at every timestamp of the returned
\* table flow = gwi + bwwf + wwf, whatever clip_negative is.
C1_ConservationAlways ==
    (Returned /\ RtkDisabled) =>
        \A i \in Rows : REq(out.timeseries.flow[i], ComponentSumAt(i))

\* C1, amended: with the RTK fit disabled, flow = gwi + bwwf + wwf at every
\* timestamp where flow and gwi are not missing and either clip_negative is off
\* or flow - gwi - bwwf is not negative.
C1_ConservationUnclipped ==
    (Returned /\ RtkDisabled) =>
        \A i \in Rows :
            (/\ ~IsNaN(out.timeseries.flow[i])
             /\ ~IsNaN(out.timeseries.gwi[i])
             /\ (~self.clip_negative \/ RLe(Num(0), ResidualAt(i))))
            => REq(out.timeseries.flow[i], ComponentSumAt(i))

\* a returned table, clipping on, with a timestamp of nonzero bwwf and positive wwf
\* where the balance closes and another where the residual was negative
C1_Witness ==
    /\ Returned /\ RtkDisabled /\ self.clip_negative
    /\ \E i \in Rows :
          /\ out.timeseries.bwwf[i] # Num(0)
          /\ RLt(Num(0), out.timeseries.wwf[i])
          /\ REq(out.timeseries.flow[i], ComponentSumAt(i))
    /\ \E j \in Rows : RLt(ResidualAt(j), Num(0))

\* C2: with the RTK fit disabled, wwf at every timestamp is flow - gwi - bwwf when
\* clip_negative is off and max(0, flow - gwi - bwwf) when it is on (missing where
\* the residual is missing); with clipping on no wwf value is negative.
C2_WwfIsResidual ==
    (Returned /\ RtkDisabled) =>
        \A i \in Rows :
            /\ IsNaN(ResidualAt(i)) => IsNaN(out.timeseries.wwf[i])
            /\ (~IsNaN(ResidualAt(i)) /\ ~self.clip_negative)
                  => REq(out.timeseries.wwf[i], ResidualAt(i))
            /\ (~IsNaN(ResidualAt(i)) /\ self.clip_negative)
                  => REq(out.timeseries.wwf[i], RMax(Num(0), ResidualAt(i)))
            /\ self.clip_negative => ~RLt(out.timeseries.wwf[i], Num(0))

\* a returned table, clipping on, where a negative residual came out as wwf 0 and a
\* positive one came out unchanged
C2_Witness ==
    /\ Returned /\ RtkDisabled /\ self.clip_negative
    /\ \E i \in Rows : RLt(ResidualAt(i), Num(0)) /\ out.timeseries.wwf[i] = Num(0)
    /\ \E j \in Rows : RLt(Num(0), ResidualAt(j)) /\ out.timeseries.wwf[j] = ResidualAt(j)

Labels == {"weekday", "weekend"}
PatternOf(label) == out.parameters.hourly[label]

\* C3, as stated: all 24 values of the weekday pattern and of the weekend pattern
\* are >= 0, for every flow, gwi and dry mask.
C3_PatternNonNegative ==
    Returned =>
        \A label \in Labels : \A k \in DOMAIN PatternOf(label) :
            RLe(Num(0), PatternOf(label)[k])

\* the mean of the class's dry-sample residuals flow - gwi, from fit's own series
DryMean(label) ==
    DailyAvg(label, out.index, Sanitary(out.flow, out.gwi, out.dry_mask), out.dry_mask)
PositiveMean(label) == IsFinite(DryMean(label)) /\ RLt(Num(0), DryMean(label))

\* C4, as stated: for the weekday class and for the weekend class, when the mean of
\* its dry-sample residuals is finite and positive the 24 pattern values sum to that
\* mean times 24, and otherwise all 24 are 0.
C4_PatternSum ==
    Returned =>
        \A label \in Labels :
            IF PositiveMean(label)
            THEN REq(SumSeq(PatternOf(label)), RMul(DryMean(label), Num(HoursPerDay)))
            ELSE \A k \in DOMAIN PatternOf(label) : PatternOf(label)[k] = Num(0)

\* C5, as stated: the ordinates _rtk_uh returns sum to R, for every (R, T, K) and
\* every resampling interval.
C5_UhSumsToR ==
    (uh_args # <<>>) => REq(SumSeq(uh), uh_args.R)

\* the rainfall table resampled on its own, before fit aligns it to the flow index
ResampledRain == Resample(rain_df[1], self.interval).val
RainAt(t) ==
    IF PosOf(ResampledRain, t) # 0 THEN ResampledRain.v[PosOf(ResampledRain, t)]
    ELSE Num(0)
SameValue(a, b) == (IsNaN(a) /\ IsNaN(b)) \/ REq(a, b)

\* C6, as stated: with a rainfall table supplied, the rainfall column holds at each
\* flow timestamp the resampled rainfall at that timestamp (0 only where the
\* rainfall series has no sample there), and a timestamp whose rainfall exceeds the
\* threshold is classified wet.
C6_RainAligned ==
    (Returned /\ rain_df # None) =>
        \A i \in Rows :
            /\ SameValue(out.timeseries.rainfall[1][i], RainAt(out.index[i]))
            /\ RLt(Thresh(self), RainAt(out.index[i])) => ~out.dry_mask[i]

FindDryCalled == \E k \in DOMAIN out.stages : out.stages[k] = "find_dry"
FindDryReturned == \E k \in DOMAIN out.stages : out.stages[k] = "calc_bwwf"
RainPassed == out.rain[1].v

\* C7, as stated: when the rainfall series handed to the classifier is identically
\* zero, every timestamp is classified dry, whatever lookback and threshold are
\* configured.
C7_ZeroRainAllDry ==
    (/\ rain_df # None
     /\ FindDryCalled
     /\ \A i \in DOMAIN RainPassed : RainPassed[i] = Num(0))
    => /\ FindDryReturned
       /\ DOMAIN out.dry_mask = Rows
       /\ \A i \in Rows : out.dry_mask[i]

RECURSIVE SumOver(_, _)
SumOver(S, v) ==
    IF S = {} THEN Num(0)
    ELSE LET j == CHOOSE x \in S : TRUE
         IN  RAdd(IF IsNaN(v[j]) THEN Num(0) ELSE v[j], SumOver(S \ {j}, v))

\* w = lookback_hours / interval_hours, and the samples max(first, i - w + 1) .. i
WindowW == RDiv(Get(self.dry_criteria, "lookback_h", Num(DefaultLookbackH)), IntervalH(self))
Window(i) == {j \in 1..i : RLe(Num(i - j + 1), WindowW)}

\* C8: with a rainfall series supplied, timestamp i is dry exactly when the rainfall
\* summed over the samples max(first, i - w + 1) .. i is at most the threshold, where
\* w = lookback_hours / interval_hours, a missing sample counts 0 and the window is
\* partial at the start of the record.
C8_DryIffTrailingSum ==
    (rain_df # None /\ FindDryReturned) =>
        \A i \in Rows :
            out.dry_mask[i] <=> RLe(SumOver(Window(i), RainPassed), Thresh(self))

\* a classified record under a window that is not a whole number of samples, with a
\* dry timestamp whose window is cut by the start of the record, a timestamp wet
\* from rain earlier in its window, and a later one dry again
C8_Witness ==
    /\ rain_df # None /\ FindDryReturned
    /\ Num(Floor(WindowW)) # WindowW
    /\ \E i \in Rows : out.dry_mask[i] /\ RLt(Num(i), WindowW)
    /\ \E i \in Rows : /\ i > 1 /\ ~out.dry_mask[i] /\ RainPassed[i] = Num(0)
                         /\ \E j \in Rows : j > i /\ out.dry_mask[j]

ClassOf(t) == IF IsWeekday(t) THEN "weekday" ELSE "weekend"

\* C9, as stated: at every timestamp t of the resampled record, dry or wet, bwwf(t)
\* is the value of the pattern of t's class at t's hour of day, and none is missing.
C9_BwwfIsPattern ==
    Returned =>
        \A i \in Rows :
            /\ ~IsNaN(out.timeseries.bwwf[i])
            /\ REq(out.timeseries.bwwf[i],
                   AtHour(PatternOf(ClassOf(out.index[i])), HourOf(out.index[i])))

\* C10, as stated: when a class has no dry sample, or the mean of its dry residuals
\* is not finite or is <= 0, fit raises no error, the class's 24 pattern values are
\* all 0 and bwwf is 0 at every timestamp of the class.
C10_DegenerateClassZero ==
    FindDryReturned =>
        \A label \in Labels :
            ~PositiveMean(label) =>
                /\ Returned
                /\ \A k \in DOMAIN PatternOf(label) : PatternOf(label)[k] = Num(0)
                /\ \A i \in Rows :
                      InClass(label, out.index[i]) => out.timeseries.bwwf[i] = Num(0)

GwiReturned == \E k \in DOMAIN out.stages : out.stages[k] = "find_dry"

\* C11: in mode avg_monthly with an average supplied, gwi at every flow timestamp is
\* gwi_avg times the multiplier of the timestamp's month, gwi_monthly[month - 1]
\* counted from 0.
C11_GwiAvgMonthly ==
    (GwiReturned /\ self.gwi_mode = "avg_monthly" /\ self.gwi_avg # None) =>
        /\ DOMAIN out.gwi = Rows
        /\ \A i \in Rows :
              REq(out.gwi[i], RMul(self.gwi_avg[1], self.gwi_monthly[MonthOf(out.index[i])]))

\* a record that runs from July into August under multipliers that differ between
\* the two months, with gwi 8 in July and 12 in August
C11_Witness ==
    /\ Returned /\ self.gwi_mode = "avg_monthly" /\ self.gwi_avg = Some(Num(4))
    /\ \E i, j \in Rows :
          /\ MonthOf(out.index[i]) = 7 /\ out.timeseries.gwi[i] = Num(8)
          /\ MonthOf(out.index[j]) = 8 /\ out.timeseries.gwi[j] = Num(12)

\* C12, as stated: whenever a GWI series or an average is available, the gwi series
\* _calc_gwi returns has a non-missing value at every timestamp of the flow index,
\* in both GWI modes.
C12_GwiNotMissing ==
    (GwiReturned /\ (gwi_df # None \/ self.gwi_avg # None)) =>
        \A i \in Rows : ~IsNaN(out.gwi[i])

\* C13, as stated: a fit call in mode avg_monthly without an average ends with the
\* configuration error (ValueError) before any stage has run; nothing is returned.
C13_ConfigErrorFirst ==
    (phase = "done" /\ self.gwi_mode = "avg_monthly" /\ self.gwi_avg = None) =>
        /\ out.status = "error"
        /\ out.error = "ValueError"
        /\ out.stages = <<>>

RtkRan == \E k \in DOMAIN out.stages : out.stages[k] = "rtk"

\* C14, as stated: on a Decomposer configured with an optimization method other
\* than "de_then_lbfgsb", fit ends with an error and runs no optimization.
C14_UnsupportedMethodFails ==
    (phase = "done" /\ self.optimize_method # "de_then_lbfgsb") =>
        (out.status = "error" /\ ~RtkRan)

\* C15, as stated: a call of fit leaves every configuration attribute of the
\* Decomposer as it was.
C15_ConfigImmutable == [][phase = "ready" => self' = self]_vars

\* C16: with rtk_components = 0 the RTK stage does not run, with or without rainfall:
\* wwf is the residual flow - gwi - bwwf, floored at 0 when clip_negative is on, and
\* the parameter record has neither rtk_triplets nor fit_metrics.
C16_NoComponentsNoRtk ==
    (Returned /\ self.rtk_components = 0) =>
        /\ ~RtkRan
        /\ out.parameters.rtk_triplets = None
        /\ out.parameters.fit_metrics = None
        /\ \A i \in Rows :
              SameValue(out.timeseries.wwf[i],
                        IF self.clip_negative THEN RMax(Num(0), ResidualAt(i))
                        ELSE ResidualAt(i))

\* a fit with rainfall supplied and rtk_components = 0 that found a wet timestamp and
\* returned a nonzero wwf
C16_Witness ==
    /\ Returned /\ self.rtk_components = 0 /\ rain_df # None
    /\ \E i \in Rows : ~out.dry_mask[i]
    /\ \E i \in Rows : RLt(Num(0), out.timeseries.wwf[i])

Triplets == out.parameters.rtk_triplets[1]
TripletUh(k) == RtkUh(Triplets[k].R, Triplets[k].T, Triplets[k].K, IntervalH(self))

\* rainfall convolved with the unit hydrograph of triplet k, at flow timestamp i
RainResponse(k, i) ==
    SumSeq(Tup([j \in 1..i |->
               IF i - j + 1 <= Len(TripletUh(k))
               THEN RMul(out.timeseries.rainfall[1][j], TripletUh(k)[i - j + 1])
               ELSE Num(0)]))
Reconstruction(i) == SumSeq(Tup([k \in DOMAIN Triplets |-> RainResponse(k, i)]))

\* C17: when the RTK fit runs (rainfall supplied, N = rtk_components > 0), the wwf
\* column is the sum over the recorded triplets of the rainfall convolved with the
\* triplet's unit hydrograph, and the parameter record holds exactly N triplets and
\* an NSE value.
C17_WwfIsReconstruction ==
    (Returned /\ rain_df # None /\ self.rtk_components > 0) =>
        /\ RtkRan
        /\ out.parameters.rtk_triplets # None
        /\ Len(Triplets) = self.rtk_components
        /\ out.parameters.fit_metrics # None
        /\ \A i \in Rows : SameValue(out.timeseries.wwf[i], Reconstruction(i))

\* a fit of two different triplets whose reconstruction is positive at a timestamp
\* where the residual is 0
C17_Witness ==
    /\ Returned /\ RtkRan /\ self.rtk_components = 2
    /\ Triplets[1] # Triplets[2]
    /\ \E i \in Rows : RLt(Num(0), out.timeseries.wwf[i]) /\ out.residual[i] = Num(0)

ReportedNse == out.parameters.fit_metrics[1]
ObsMean == RDiv(SumSeq(out.residual), Num(Len(out.residual)))
SquaredError ==
    SumSeq(Tup([i \in DOMAIN out.residual |->
               RMul(RSub(out.residual[i], out.timeseries.wwf[i]),
                    RSub(out.residual[i], out.timeseries.wwf[i]))]))
ObsVariation ==
    SumSeq(Tup([i \in DOMAIN out.residual |->
               RMul(RSub(out.residual[i], ObsMean), RSub(out.residual[i], ObsMean))]))

\* C18, as stated: when the RTK fit runs, the reported NSE is
\* 1 - sum (obs - model)^2 / sum (obs - mean(obs))^2 of the final model against the
\* observed residual, and it is a number not greater than 1 for every observed
\* residual.
C18_NseAtMostOne ==
    (Returned /\ RtkRan) =>
        /\ SameValue(ReportedNse, RSub(Num(1), RDiv(SquaredError, ObsVariation)))
        /\ ~IsNaN(ReportedNse)
        /\ RLe(ReportedNse, Num(1))

-----------------------------------------------------------------------------
(* Properties of _resample *)

ResampleReturned == resample_args # <<>> /\ resampled.ok

\* the table's values on the grid of the interval, before any filling
Grid == Asfreq(resample_args.df, resample_args.interval).val.v
GapStart(i) == PrevValid(Grid, i)
GapEnd(i) == NextValid(Grid, i)
InGap(i) == IsNaN(Grid[i]) /\ GapStart(i) # 0 /\ GapEnd(i) # 0
GapLength(i) == GapEnd(i) - GapStart(i) - 1
OnLine(i) ==
    RAdd(Grid[GapStart(i)],
         RMul(RSub(Grid[GapEnd(i)], Grid[GapStart(i)]),
              Rat(i - GapStart(i), GapEnd(i) - GapStart(i))))

\* C19, as stated: a grid sample in a gap of at most 2 consecutive missing samples
\* is filled with the value on the line between the gap's neighbours, and every
\* sample in a gap of 3 or more consecutive missing samples stays missing.
C19_GapsFilledUpToTwo ==
    ResampleReturned =>
        \A i \in DOMAIN Grid :
            InGap(i) =>
                IF GapLength(i) <= 2
                THEN REq(resampled.val.v[i], OnLine(i))
                ELSE IsNaN(resampled.val.v[i])

Rows0 == resample_args.df.rows
Uniform ==
    /\ DOMAIN Rows0 # {}
    /\ DOMAIN Rows0 = {SetMin(DOMAIN Rows0) + k * resample_args.interval :
                          k \in 0..(Cardinality(DOMAIN Rows0) - 1)}

\* C20: the timestamps _resample returns are an arithmetic sequence at the interval;
\* for a table already uniform at the interval they are the table's timestamps, and
\* every value that was not missing in the table is returned unchanged.
C20_ResampleUniform ==
    ResampleReturned =>
        /\ \A k \in 1..(Len(resampled.val.idx) - 1) :
              resampled.val.idx[k + 1] - resampled.val.idx[k] = resample_args.interval
        /\ Uniform =>
              /\ Len(resampled.val.idx) = Cardinality(DOMAIN Rows0)
              /\ Range(resampled.val.idx) = DOMAIN Rows0
              /\ \A k \in DOMAIN resampled.val.idx :
                    ~IsNaN(Rows0[resampled.val.idx[k]])
                        => resampled.val.v[k] = Rows0[resampled.val.idx[k]]

\* a uniform table of at least 4 rows with a missing value that was filled in
C20_Witness ==
    /\ ResampleReturned /\ Uniform
    /\ Cardinality(DOMAIN Rows0) >= 4
    /\ \E k \in DOMAIN resampled.val.idx :
          IsNaN(Rows0[resampled.val.idx[k]]) /\ ~IsNaN(resampled.val.v[k])
    /\ \E k \in DOMAIN resampled.val.idx : resampled.val.v[k] = Num(7)

-----------------------------------------------------------------------------
(* The stored monthly multipliers *)

\* C21, as stated: every constructed Decomposer holds exactly 12 monthly multipliers,
\* whatever gwi_monthly was passed, and so does the parameter record fit returns.
C21_TwelveMultipliers ==
    /\ phase # "new" => Len(self.gwi_monthly) = MonthsPerYear
    /\ Returned => Len(out.parameters.gwi_monthly) = MonthsPerYear

-----------------------------------------------------------------------------
(* Empty input *)

EmptyFlow == phase = "done" /\ DOMAIN flow_df[1].rows = {}

\* C22, as stated: a fit call on an empty flow table that got past the GWI estimate
\* and the dry classifier raises no error; flow, gwi, the dry mask, bwwf and wwf are
\* empty and the returned table has zero rows.
C22_EmptyFlowReturnsEmpty ==
    (EmptyFlow /\ FindDryReturned) =>
        /\ Returned
        /\ out.flow = <<>> /\ out.gwi = <<>> /\ out.dry_mask = <<>>
        /\ out.bwwf = <<>> /\ out.wwf = <<>>
        /\ out.timeseries.timestamp = <<>>

-----------------------------------------------------------------------------
(* The length of the unit hydrograph *)

\* C23, as stated: the unit hydrograph _rtk_uh returns for (R, T, K) at an interval
\* has round((1 + K) * (T / interval)) ordinates.
C23_UhLength ==
    (uh_args # <<>>) =>
        Len(uh) = Round(RMul(RAdd(Num(1), uh_args.K), RDiv(uh_args.T, uh_args.interval_h)))

-----------------------------------------------------------------------------
(* The pattern of a class with a positive daily average *)

\* the 24 hourly means of the class's dry-sample residuals, from fit's own series
DryHourly(label) ==
    Hourly(label, out.index, Sanitary(out.flow, out.gwi, out.dry_mask), out.dry_mask)

\* C24, as stated: for a class whose daily average is finite and positive, the
\* pattern is hourly mean / sum of the hourly means * daily average * 24 at every
\* hour; when the hourly means sum to 0, _calc_bwwf completes and every hour of the
\* pattern equals the daily average.
C24_FlatPatternOnZeroSum ==
    FindDryReturned =>
        \A label \in Labels :
            PositiveMean(label) =>
                IF SumSkipNa(DryHourly(label)) = Num(0)
                THEN /\ Returned
                     /\ \A k \in 1..HoursPerDay : REq(PatternOf(label)[k], DryMean(label))
                ELSE Returned =>
                        \A k \in 1..HoursPerDay :
                            SameValue(PatternOf(label)[k],
                                      RMul(RMul(RDiv(DryHourly(label)[k],
                                                     SumSkipNa(DryHourly(label))),
                                                DryMean(label)), Num(HoursPerDay)))

-----------------------------------------------------------------------------
(* A lookback shorter than the interval *)

\* C25, as stated: when lookback_hours / interval_hours is below 1, _find_dry
\* classifies every timestamp without error under a window of one sample: a
\* timestamp is dry exactly when its own rainfall (0 if missing) is at most the
\* threshold.
C25_WindowAtLeastOneSample ==
    (rain_df # None /\ FindDryCalled /\ RLt(WindowW, Num(1))) =>
        /\ FindDryReturned
        /\ DOMAIN out.dry_mask = Rows
        /\ \A i \in Rows : out.dry_mask[i] <=> RLe(SumOver({i}, RainPassed), Thresh(self))

-----------------------------------------------------------------------------
(* The modeled WWF *)

\* the unit hydrograph of the k-th triplet of the call
ArgUh(k) ==
    RtkUh(model_args.params[k].R, model_args.params[k].T, model_args.params[k].K,
          model_args.interval_h)

\* sum over j <= t (from 0, within the hydrograph) of rain[t - j] * uh[j], for the
\* k-th triplet, at sample t (from 1)
CausalSum(k, t) ==
    SumSeq(Tup([j \in 1..(IF t < Len(ArgUh(k)) THEN t ELSE Len(ArgUh(k))) |->
                  RMul(model_args.rain[t - j + 1], ArgUh(k)[j])]))

\* C26, as stated: the array _model_wwf returns has the length of the rainfall
\* array, its value at sample t is the sum over the triplets of the sum over j <= t
\* of rain[t - j] * uh[j], which reads no rainfall sample after t, and it is 0 at
\* every sample when the rainfall is 0 at every sample.
C26_ModelCausal ==
    (model_args # <<>>) =>
        /\ modeled.ok
        /\ Len(modeled.val) = Len(model_args.rain)
        /\ \A t \in DOMAIN model_args.rain :
              SameValue(modeled.val[t],
                        SumSeq(Tup([k \in DOMAIN model_args.params |-> CausalSum(k, t)])))
        /\ (\A t \in DOMAIN model_args.rain : model_args.rain[t] = Num(0)) =>
              \A t \in DOMAIN model_args.rain : modeled.val[t] = Num(0)

-----------------------------------------------------------------------------
(* Repeated calls *)

SameTables(a, b) ==
    /\ calls[a].flow_df = calls[b].flow_df
    /\ calls[a].rain_df = calls[b].rain_df
    /\ calls[a].gwi_df = calls[b].gwi_df

\* C27, as stated: with RTK disabled, any two fit calls on the same Decomposer that
\* were passed the same tables and returned have the same gwi series and the same
\* gwi_avg in the parameter record, whatever calls were made between them.
C27_FitRepeatable ==
    \A a, b \in DOMAIN calls :
        (SameTables(a, b) /\ calls[a].status = "ok" /\ calls[b].status = "ok") =>
            /\ calls[a].gwi = calls[b].gwi
            /\ calls[a].parameters.gwi_avg = calls[b].parameters.gwi_avg

-----------------------------------------------------------------------------
(* RTK components without rainfall *)

WwfReached == \E k \in DOMAIN out.stages : out.stages[k] = "wwf"

\* C28: when rtk_components > 0 and no rainfall table is passed, a fit call that has
\* computed the residual returns without error and without running the RTK fit: wwf
\* is the residual flow - gwi - bwwf, floored at 0 when clip_negative is on, and the
\* parameter record has neither rtk_triplets nor fit_metrics.
C28_NoRainSkipsRtk ==
    (phase = "done" /\ self.rtk_components > 0 /\ rain_df = None /\ WwfReached) =>
        /\ Returned
        /\ ~RtkRan
        /\ out.parameters.rtk_triplets = None
        /\ out.parameters.fit_metrics = None
        /\ \A i \in Rows :
              SameValue(out.timeseries.wwf[i],
                        IF self.clip_negative THEN RMax(Num(0), ResidualAt(i))
                        ELSE ResidualAt(i))

\* a fit with two RTK components configured and no rainfall that returned a table
\* with a positive wwf and no rainfall column
C28_Witness ==
    /\ Returned /\ self.rtk_components = 2 /\ rain_df = None
    /\ out.timeseries.rainfall = None
    /\ \E i \in Rows : RLt(Num(0), out.timeseries.wwf[i])

-----------------------------------------------------------------------------
(* Clipping never under-accounts *)

-----------------------------------------------------------------------------
(* A GWI mode that is neither timeseries nor avg_monthly *)

GwiCalled == \E k \in DOMAIN out.stages : out.stages[k] = "calc_gwi"

\* what _calc_gwi gives on the same Decomposer in mode avg_monthly without a GWI table
AsAvgMonthly == CalcGwi([self EXCEPT !.gwi_mode = "avg_monthly"], out.tz, out.index, None)

\* C30: a fit call on a Decomposer whose gwi_mode is anything but "timeseries" gets
\* from _calc_gwi what mode avg_monthly gives without a GWI table, whatever the mode
\* string and whether or not a GWI table was passed: the missing-average ValueError
\* when gwi_avg is None, and otherwise gwi = gwi_avg * multiplier of the month at
\* every timestamp.
C30_OtherModeIsAvgMonthly ==
    (phase = "done" /\ self.gwi_mode # "timeseries" /\ GwiCalled) =>
        /\ IF AsAvgMonthly.ok THEN GwiReturned /\ out.gwi = AsAvgMonthly.val
           ELSE ~GwiReturned /\ out.status = "error" /\ out.error = AsAvgMonthly.error
        /\ self.gwi_avg = None => (~GwiReturned /\ out.error = "ValueError")
        /\ (self.gwi_avg # None /\ Len(self.gwi_monthly) = MonthsPerYear) =>
              /\ GwiReturned
              /\ \A i \in Rows :
                    REq(out.gwi[i],
                        RMul(self.gwi_avg[1], self.gwi_monthly[MonthOf(out.index[i])]))

\* a fit in the unrecognised mode "monthly_avg" that was passed a GWI table with 10
\* at 23:30 and returned gwi = gwi_avg = 4 there
C30_Witness ==
    /\ Returned /\ self.gwi_mode = "monthly_avg" /\ self.gwi_avg = Some(Num(4))
    /\ gwi_df # None /\ gwi_df[1].aware
    /\ \E i \in Rows : /\ out.index[i] = FirstTick + 60
                         /\ gwi_df[1].rows[out.index[i]] = Num(10)
                         /\ out.timeseries.gwi[i] = Num(4)


====
